---- MODULE Spec2Model ----
(***************************************************************************)
(* Model of the Bitbucket -> GitHub issue migration pipeline (bbmigrate):  *)
(* the gap-filling generator (base.fill_gaps), the producer loop of        *)
(* main.main, the background consumer main.push_issues, and the GitHub     *)
(* client operations they call (github.GitHub).                            *)
(***************************************************************************)
EXTENDS Integers, Sequences, FiniteSets, TLC

(***************************************************************************)
(* Bounds of the model.                                                    *)
(***************************************************************************)
MaxId == 3        \* largest Bitbucket issue id in the source
MaxOffset == 1    \* largest value of --skip
MaxExtra == 1     \* most issues the GitHub repo holds beyond --skip
MaxPolls == 1     \* most 'pending' answers to the status polls of one import
MaxGapLen == 2    \* longest input handed to fill_gaps on its own
MaxGapId == 4     \* largest id in an input handed to fill_gaps on its own
MaxCalls == 2     \* most registry calls made on a GitHub object on its own
MaxNames == 2     \* most names in one ensure_labels call on its own
MaxFields == 2    \* most fields in a change event
MaxBodies == 2    \* most format_change_body calls on one change event
MaxNameLen == 60  \* longest name handed to translate_label on its own
MaxDate == 2      \* latest instant of a date handed to convert_issue
MaxIssueChanges == 2  \* most changes of an issue handed to convert_issue

VARIABLES
    issues,          \* what bb.get_issues(options.skip) yields, in order
    skip,            \* options.skip
    dry_run,         \* options.dry_run
    mention_changes, \* options.mention_changes
    gen,             \* suspended frame of the fill_gaps generator
    emitted,         \* everything fill_gaps has yielded so far
    abort,           \* abort_event
    work_queue,      \* queue.Queue items
    unfinished,      \* queue.Queue.unfinished_tasks
    mainPc,          \* position of main()
    cur,             \* producer locals: issue, changes, gh_issue, gh_comments
    workerPc,        \* position of push_issues()
    task,            \* consumer locals: the dequeued tuple, raised exception
    labels,          \* GitHub.labels (local cache)
    milestones,      \* GitHub.milestones (local cache, title -> number)
    gh,              \* the GitHub repository (destination)
    hist,            \* observations of the run (history only)
    reg,             \* registry calls made on a GitHub object on its own
    chg              \* a change event handed to format_change_body on its own

vars == <<issues, skip, dry_run, mention_changes, gen, emitted, abort,
          work_queue, unfinished, mainPc, cur, workerPc, task, labels,
          milestones, gh, hist, reg, chg>>

(***************************************************************************)
(* Strings are sequences of one-character strings, so that replace() and   *)
(* slicing are computed.  Python's None is a value no string equals.       *)
(***************************************************************************)
None == <<"<None>">>
Str_none_paren == <<"(", "n", "o", "n", "e", ")">>
Str_None == <<"N", "o", "n", "e">>
Str_empty == <<>>
L_major == <<"m", "a", "j", "o", "r">>
L_bug == <<"b", "u", "g">>
L_a_comma_b == <<"a", ",", "b">>
M_1_0 == <<"1", ".", "0">>

(***************************************************************************)
(* base.DummyIssue and the real issues of the source.                      *)
(***************************************************************************)
DummyIssue(num) ==
    [id |-> num, dummy |-> TRUE, title |-> "", state |-> "", labels |-> {},
     milestone |-> None, comments |-> 0, changes |-> 0]

RealIssues(n) ==
    { [id |-> n, dummy |-> FALSE, title |-> "plain", state |-> "new",
       labels |-> {L_major}, milestone |-> None, comments |-> 0,
       changes |-> 0],
      [id |-> n, dummy |-> FALSE, title |-> "rich", state |-> "resolved",
       labels |-> {L_major, L_a_comma_b}, milestone |-> M_1_0,
       comments |-> 1, changes |-> 1] }

(***************************************************************************)
(* base.fill_gaps as a generator.  The frame records where the generator   *)
(* is suspended: pos is the index of the input issue of the running outer  *)
(* iteration (0 before the first), inner tells whether it is suspended at  *)
(* `yield DummyIssue(dummy_id)` inside range(current_id + 1, issue_id).    *)
(***************************************************************************)
\* the generator starts counting at 0, whatever the offset
GenInit_from_zero(offset) ==
    [pos |-> 0, inner |-> FALSE, current_id |-> 0, dummy_id |-> 0]

GenInit(offset) ==
    [pos |-> 0, inner |-> FALSE, current_id |-> offset, dummy_id |-> offset]

\* range(current_id + 1, issue_id + 1): the bound is one too far
RangeNext_inclusive(dummy_id, issue_id) ==
    IF dummy_id + 1 <= issue_id THEN dummy_id + 1 ELSE 0

\* first value of range(current_id + 1, issue_id) is dummy_id + 1 with
\* dummy_id = current_id; the range is exhausted at issue_id
RangeNext(dummy_id, issue_id) ==
    IF dummy_id + 1 < issue_id THEN dummy_id + 1 ELSE 0

GenInner(in, g) ==
    LET issue_id == in[g.pos].id
        d == RangeNext(g.dummy_id, issue_id)
    IN IF d # 0
       THEN [item |-> DummyIssue(d),
             gen |-> [g EXCEPT !.inner = TRUE, !.dummy_id = d]]
       ELSE [item |-> in[g.pos],
             gen |-> [g EXCEPT !.inner = FALSE, !.current_id = issue_id]]

GenExhausted(in, g) == ~g.inner /\ g.pos = Len(in)

\* next(issues_iterator), defined when ~GenExhausted(in, g)
fill_gaps(in, g) ==
    IF g.inner
    THEN GenInner(in, g)
    ELSE GenInner(in, [g EXCEPT !.pos = @ + 1, !.dummy_id = g.current_id])

(***************************************************************************)
(* github.GitHub: label translation and the two registries.                *)
(***************************************************************************)
LabelMaxLen == 50

DictGet(d, k, default) == IF k \in DOMAIN d THEN d[k] ELSE default

RECURSIVE StrReplaceComma(_)
\* label.replace(",", '')
StrReplaceComma(s) ==
    IF s = <<>> THEN <<>>
    ELSE IF Head(s) = "," THEN StrReplaceComma(Tail(s))
         ELSE <<Head(s)>> \o StrReplaceComma(Tail(s))

StrPrefix_whole(s, n) == s
\* label[:n]
StrPrefix(s, n) == IF Len(s) <= n THEN s ELSE SubSeq(s, 1, n)

translate_label_keeps_sentinels(label_translations, label) ==
    StrPrefix(StrReplaceComma(DictGet(label_translations, label, label)),
              LabelMaxLen)
translate_label(label_translations, label) ==
    LET l == DictGet(label_translations, label, label)
    IN IF l \in {None, Str_none_paren, Str_None}
       THEN None
       ELSE StrPrefix(StrReplaceComma(l), LabelMaxLen)

\* config['label_translations'] of the modelled run
config_label_translations == (L_a_comma_b :> L_bug)

\* the set ensure_labels computes before its create loop
EnsureLabelsTarget(label_translations, names) ==
    {translate_label(label_translations, n) : n \in names} \ {None}

\* convert_issue: is_closed = issue['state'] not in ('open', 'new')
IsClosed(state) == state \notin {"open", "new"}

DummyGhIssue_open ==
    [title |-> "dummy issue", closed |-> FALSE, labels |-> {}, milestone |-> 0]
\* convert_issue's result for a DummyIssue
DummyGhIssue ==
    [title |-> "dummy issue", closed |-> TRUE, labels |-> {}, milestone |-> 0]

(***************************************************************************)
(* GitHub.ensure_labels and GitHub.ensure_milestone as whole calls.        *)
(***************************************************************************)
\* self.labels.add(label)
LabelsAdd_forgets(cache, name) == cache
LabelsAdd(cache, name) == cache \cup {name}

\* what the POST to the labels URL leaves in the repository
ServerCreateLabel_drops(remote, name, status) == remote
ServerCreateLabel(remote, name, status) ==
    IF status = 201 THEN remote \cup {name} ELSE remote

\* `if respo.status_code != 201: raise RuntimeError(...)`
create_raises_never(status) == FALSE
create_raises(status) == status # 201

\* one iteration of the loop of ensure_labels: _create_label(label), then
\* self.labels.add(label) unless the former raised
create_label(st, name, dry, status) ==
    LET called == [st EXCEPT !.creates = Append(@, name)]
        posted == [called EXCEPT
                     !.posts = Append(@, [name |-> name, status |-> status]),
                     !.remote = ServerCreateLabel(@, name, status)]
    IN IF dry
       THEN [called EXCEPT !.cache = LabelsAdd(@, name)]
       ELSE IF create_raises(status)
            THEN [posted EXCEPT !.raised = TRUE]
            ELSE [posted EXCEPT !.cache = LabelsAdd(@, name)]

RECURSIVE EnsureLoop(_, _, _, _)
\* `for label in labels.difference(self.labels)`, visiting the labels in
\* the sequence order and getting the answers statuses
EnsureLoop(st, order, statuses, dry) ==
    IF order = <<>> \/ st.raised THEN st
    ELSE EnsureLoop(create_label(st, Head(order), dry, Head(statuses)),
                    Tail(order), Tail(statuses), dry)

\* the orders in which a loop can visit the elements of a set
Orders(S) ==
    {q \in [1..Cardinality(S) -> S] :
       \A i, j \in 1..Cardinality(S) : q[i] = q[j] => i = j}

\* a call of ensure_labels(names): what it returns or that it raised, the
\* _create_label calls it made and the POSTs it sent
ensure_labels(table, names, cache, remote, order, statuses, dry) ==
    LET target == EnsureLabelsTarget(table, names)
        st == EnsureLoop([cache |-> cache, remote |-> remote,
                          creates |-> <<>>, posts |-> <<>>,
                          raised |-> FALSE], order, statuses, dry)
    IN [op |-> "ensure_labels", arg |-> names, before |-> cache,
        ret |-> IF st.raised THEN {} ELSE target, raised |-> st.raised,
        creates |-> st.creates, posts |-> st.posts, cache |-> st.cache,
        remote |-> st.remote]

\* the number a created milestone gets from the repository
ServerMilestoneNumber(remote) == Cardinality(DOMAIN remote) + 1

\* a call of ensure_milestone(title)
ensure_milestone(title, cache, remote, status, dry) ==
    LET rec == [op |-> "ensure_milestone", arg |-> title, before |-> cache,
                ret |-> 0, raised |-> FALSE, creates |-> <<>>,
                posts |-> <<>>, cache |-> cache, remote |-> remote]
        number == ServerMilestoneNumber(remote)
    IN IF title \in DOMAIN cache
       THEN [rec EXCEPT !.ret = cache[title]]
       ELSE IF dry
       THEN \* random.randint(1000000) lacks its second argument
            [rec EXCEPT !.creates = <<title>>, !.raised = TRUE]
       ELSE IF create_raises(status)
       THEN [rec EXCEPT !.creates = <<title>>, !.raised = TRUE,
                        !.posts = <<[name |-> title, status |-> status]>>]
       ELSE [rec EXCEPT !.creates = <<title>>, !.ret = number,
                        !.posts = <<[name |-> title, status |-> status]>>,
                        !.cache = cache @@ (title :> number),
                        !.remote = remote @@ (title :> number)]

\* the GitHub object before any call: self.label_translations, no call made
RegInit(label_translations) ==
    [label_translations |-> label_translations, calls |-> <<>>,
     raised |-> FALSE]

(***************************************************************************)
(* convert.format_change_body: the classification of a change event and    *)
(* the rendering of its lines.                                             *)
(***************************************************************************)
S_open == <<"o", "p", "e", "n">>
S_new == <<"n", "e", "w">>
S_on_hold == <<"o", "n", " ", "h", "o", "l", "d">>
S_resolved == <<"r", "e", "s", "o", "l", "v", "e", "d">>
S_duplicate == <<"d", "u", "p", "l", "i", "c", "a", "t", "e">>
S_wontfix == <<"w", "o", "n", "t", "f", "i", "x">>
S_closed == <<"c", "l", "o", "s", "e", "d">>
F_png == <<"f", ".", "p", "n", "g">>

\* the fields format_change_body looks at
include_changes_with_account_id ==
    {"assignee", "state", "title", "kind", "milestone", "component",
     "priority", "version", "content", "attachment", "assignee_account_id"}
include_changes ==
    {"assignee", "state", "title", "kind", "milestone", "component",
     "priority", "version", "content", "attachment"}

\* `if old:` for a value that is None or a string
Truthy(v) == v # None /\ v # Str_empty

\* `change_element == "attachment"`
IsAttachment_never(field) == FALSE
IsAttachment(field) == field = "attachment"

IsLabelField(field) == field \in {"priority", "component", "kind", "version"}

NoEffect ==
    [removed_labels |-> {}, added_labels |-> {}, field_changes |-> {},
     status_changes |-> {}, misc_changes |-> {}]

\* what one pass of the loop over change['changes'] adds to the five sets
FieldEffect(field, old0, new0, config) ==
    LET new_is_label ==
            IsLabelField(field) \/
            (field = "state" /\ new0 \in config.states_as_labels)
        old_is_label ==
            IsLabelField(field) \/
            (field = "state" /\ old0 \in config.states_as_labels)
        old == translate_label(config.label_translations, old0)
        new == translate_label(config.label_translations, new0)
        oldnewchange ==
            [field |-> field,
             old |-> IF old_is_label THEN None ELSE old,
             new |-> IF new_is_label THEN None ELSE new]
        open_like == {Str_empty, S_open, S_new, S_on_hold}
        closed_like == {S_resolved, S_duplicate, S_wontfix, S_closed}
    IN IF field \notin include_changes THEN NoEffect
       ELSE IF IsAttachment(field)
       THEN [NoEffect EXCEPT !.misc_changes =
               {[kind |-> "attached file", vals |-> <<new0>>]}]
       ELSE [removed_labels |->
               IF old_is_label /\ Truthy(old) THEN {old} ELSE {},
             added_labels |->
               IF new_is_label /\ Truthy(new) THEN {new} ELSE {},
             status_changes |->
               IF field = "state"
               THEN (IF new \in open_like /\ old \in closed_like
                     THEN {"reopened"} ELSE {}) \cup
                    (IF old \in open_like /\ new \in closed_like
                     THEN {"closed"} ELSE {})
               ELSE {},
             misc_changes |->
               IF field # "state" /\ field = "content"
               THEN {[kind |-> "edited description", vals |-> <<>>]}
               ELSE {},
             field_changes |->
               IF field \notin {"state", "content"} /\
                  (~old_is_label \/ ~new_is_label)
               THEN {oldnewchange} ELSE {}]

\* the five sets after the loop over change['changes']
Classify(changes, config) ==
    LET eff(f) == FieldEffect(f, changes[f].old, changes[f].new, config)
    IN [removed_labels |-> UNION {eff(f).removed_labels : f \in DOMAIN changes},
        added_labels |-> UNION {eff(f).added_labels : f \in DOMAIN changes},
        field_changes |-> UNION {eff(f).field_changes : f \in DOMAIN changes},
        status_changes |->
          UNION {eff(f).status_changes : f \in DOMAIN changes},
        misc_changes |-> UNION {eff(f).misc_changes : f \in DOMAIN changes}]

\* a line of the body: its text pattern, the field or verb, the values
Line(kind, field, vals) == [kind |-> kind, field |-> field, vals |-> vals]

\* the inner format_change_element; its last branch is `assert False`
format_change_element(d) ==
    IF Truthy(d.old) /\ Truthy(d.new)
    THEN Line("changed", d.field, <<d.old, d.new>>)
    ELSE IF Truthy(d.old) THEN Line("removed", d.field, <<d.old>>)
    ELSE IF Truthy(d.new) THEN Line("set", d.field, <<d.new>>)
    ELSE Line("assert False", d.field, <<>>)

\* the list `changes`, each set being iterated in the given order
RenderLines(ro, ao, fo, so, mo) ==
    (IF ro # <<>> THEN <<Line("removed labels", "", ro)>> ELSE <<>>) \o
    (IF ao # <<>> THEN <<Line("added labels", "", ao)>> ELSE <<>>) \o
    [k \in 1..Len(fo) |-> format_change_element(fo[k])] \o
    [k \in 1..Len(so) |-> Line("changed status", so[k], <<>>)] \o
    [k \in 1..Len(mo) |-> Line(mo[k].kind, "", mo[k].vals)]

\* what format_change_body does with the lines: AssertionError, None for
\* no line, else the template filled with the lines
Body(lines) ==
    IF \E k \in DOMAIN lines : lines[k].kind = "assert False"
    THEN [raised |-> TRUE, lines |-> <<>>]
    ELSE [raised |-> FALSE, lines |-> lines]

\* the bodies format_change_body can produce from the five sets: a Python
\* set is iterated in an order the program does not choose
Bodies(c) ==
    {Body(RenderLines(ro, ao, fo, so, mo)) :
       ro \in Orders(c.removed_labels), ao \in Orders(c.added_labels),
       fo \in Orders(c.field_changes), so \in Orders(c.status_changes),
       mo \in Orders(c.misc_changes)}

\* convert_change: `if not body: return None`, else the comment
convert_change(body) ==
    IF body.raised THEN [kind |-> "raised", body |-> <<>>]
    ELSE IF body.lines = <<>> THEN [kind |-> "None", body |-> <<>>]
    ELSE [kind |-> "comment", body |-> body.lines]

\* a change event handed to format_change_body under a configuration, and
\* the calls made so far: the five sets and the body of each
ChgInit(changes, config) ==
    [changes |-> changes, config |-> config, calls |-> <<>>]

ChgIdle == ChgInit(<<>>, [states_as_labels |-> {}, label_translations |-> <<>>])

(***************************************************************************)
(* Initial states.                                                         *)
(***************************************************************************)
\* the issues a repository of the modelled runs holds under id n: the
\* rich kind under even ids, the plain kind under odd ones
SourceIssues(n) == {i \in RealIssues(n) : (i.title = "rich") <=> (n % 2 = 0)}

RECURSIVE AscendingSeqs(_, _)
\* the sorted listings bb.get_issues(offset) can yield: ids ascending,
\* unique and (by the "id > offset" query) greater than offset
AscendingSeqs(lo, hi) ==
    IF lo > hi THEN {<<>>}
    ELSE AscendingSeqs(lo + 1, hi) \cup
         {<<i>> \o rest : i \in SourceIssues(lo),
                          rest \in AscendingSeqs(lo + 1, hi)}

NoIssue == DummyIssue(0)

\* an issue the GitHub repo held before the run
OldGhIssue == [src |-> 0, gh_issue |-> DummyGhIssue, gh_comments |-> 0]

CurInit ==
    [issue |-> NoIssue, changes |-> 0, changes_status |-> 0, target |-> {},
     todo |-> {}, gh_issue |-> DummyGhIssue, gh_comments |-> 0]

\* a response of GitHub to the consumer: to the import POST or to a status GET
Resp(phase, code, status) == [phase |-> phase, code |-> code, status |-> status]

NoTask ==
    [id |-> 0, gh_issue |-> DummyGhIssue, gh_comments |-> 0,
     polls |-> 0, raising |-> FALSE, resp |-> Resp("none", 0, "")]

HistInit ==
    [pushed |-> <<>>,          \* expected ids POSTed to the import API
     imported |-> {},          \* <<expected id, GitHub id>> reported imported
     returned |-> {},          \* expected ids whose push returned normally
     all_ok |-> TRUE,          \* GitHub accepted and imported every push so far
     fatal |-> "none",         \* why the consumer raised
     late |-> {},              \* <<kind, issue id>> of writes issued while abort
                               \* was set
     abort_iter |-> 0,         \* id of the issue the producer was converting
                               \* when abort was set (0: between iterations)
     main_saw_abort |-> FALSE, \* the producer's check read abort as set
     worker_saw_abort |-> FALSE,
     puts |-> 0,               \* work_queue.put calls
     gets |-> 0,               \* successful work_queue.get calls
     dones |-> 0,              \* work_queue.task_done calls
     main_error |-> "none",    \* exception that left main()
     wrote |-> FALSE,          \* a POST was sent to GitHub
     enq |-> <<>>]             \* the tuples put on work_queue, in order

\* label listings the GitHub repo may hold before the run (_load_labels)
LabelListings == {{}, {L_major}}

PipelineInit(in, off, extra, listing) ==
    /\ issues = in
    /\ skip = off
    /\ gen = GenInit(off)
    /\ emitted = <<>>
    /\ abort = FALSE
    /\ work_queue = <<>>
    /\ unfinished = 0
    /\ mainPc = "for"
    /\ cur = CurInit
    /\ workerPc = "while"
    /\ task = NoTask
    /\ labels = listing
    /\ milestones = <<>>
    /\ gh = [issues |-> [i \in 1..(off + extra) |-> OldGhIssue],
             labels |-> listing, milestones |-> <<>>, pending |-> FALSE]
    /\ hist = HistInit
    /\ reg = RegInit(config_label_translations)
    /\ chg = ChgIdle

Init ==
    \E off \in 0..MaxOffset, extra \in 0..MaxExtra, listing \in LabelListings :
      \E in \in AscendingSeqs(off + 1, MaxId) :
        /\ dry_run \in BOOLEAN
        /\ mention_changes \in BOOLEAN
        /\ PipelineInit(in, off, extra, listing)

(***************************************************************************)
(* The producer: the loop of main.main.                                    *)
(***************************************************************************)
optVars == <<issues, skip, dry_run, mention_changes>>
unitVars == <<reg, chg>>
workerVars == <<workerPc, task>>
queueVars == <<work_queue, unfinished>>
registryVars == <<labels, milestones>>

\* an exception leaves main()
MainRaise(err) ==
    /\ mainPc' = "raised"
    /\ hist' = [hist EXCEPT !.main_error = err]

\* hist after a POST of the given kind, made for issue id, reaches GitHub
NoteWrite(h, kind, id) ==
    [h EXCEPT !.wrote = TRUE,
              !.late = IF abort THEN @ \cup {<<kind, id>>} ELSE @]

\* `for index, issue in enumerate(issues_iterator)`
MainFor ==
    /\ mainPc = "for"
    /\ IF GenExhausted(issues, gen)
       THEN /\ mainPc' = "after_loop"
            /\ UNCHANGED <<gen, emitted, cur>>
       ELSE LET r == fill_gaps(issues, gen)
            IN /\ gen' = r.gen
               /\ emitted' = Append(emitted, r.item)
               /\ cur' = [CurInit EXCEPT !.issue = r.item]
               /\ mainPc' = "check_abort"
    /\ UNCHANGED <<unitVars, optVars, abort, queueVars, workerVars, registryVars, gh,
                   hist>>

\* the producer reads the event and goes on all the same
MainCheckAbort_no_break ==
    /\ mainPc = "check_abort"
    /\ mainPc' = "fetch"
    /\ hist' = [hist EXCEPT !.main_saw_abort = @ \/ abort]
    /\ UNCHANGED <<unitVars, optVars, gen, emitted, abort, queueVars, cur, workerVars,
                   registryVars, gh>>

\* `if abort_event.is_set(): break`
MainCheckAbort ==
    /\ mainPc = "check_abort"
    /\ IF abort
       THEN /\ mainPc' = "after_loop"
            /\ hist' = [hist EXCEPT !.main_saw_abort = TRUE]
       ELSE /\ mainPc' = "fetch"
            /\ UNCHANGED hist
    /\ UNCHANGED <<unitVars, optVars, gen, emitted, abort, queueVars, cur, workerVars,
                   registryVars, gh>>

\* answers of Bitbucket to the changes request
BbStatuses == {200, 500, 404}

\* the changes are returned whatever the status of the request was
get_issue_changes_keeps(status, n) == n
\* what bb.get_issue_changes returns for an issue with n changes when the
\* request for one of its pages is answered with status (200 or 500)
get_issue_changes(status, n) == IF status = 500 THEN 0 ELSE n

\* bb.get_issue_comments / bb.get_issue_changes (skipped for a DummyIssue)
MainFetch ==
    /\ mainPc = "fetch"
    /\ IF cur.issue.dummy
       THEN /\ cur' = [cur EXCEPT !.changes = 0, !.gh_comments = 0]
            /\ mainPc' = "convert_issue"
            /\ UNCHANGED hist
       ELSE \E status \in BbStatuses :
              CASE status \in {200, 500} ->
                     /\ cur' = [cur EXCEPT
                                  !.changes =
                                    get_issue_changes(status,
                                                      cur.issue.changes),
                                  !.changes_status = status]
                     /\ mainPc' = "convert_issue"
                     /\ UNCHANGED hist
                [] OTHER ->
                     /\ MainRaise("bitbucket")
                     /\ UNCHANGED cur
    /\ UNCHANGED <<unitVars, optVars, gen, emitted, abort, queueVars, workerVars,
                   registryVars, gh>>

\* convert_issue up to the start of ensure_labels' create loop
MainConvertIssue ==
    /\ mainPc = "convert_issue"
    /\ IF cur.issue.dummy
       THEN /\ cur' = [cur EXCEPT !.gh_issue = DummyGhIssue]
            /\ mainPc' = "convert_changes"
       ELSE LET target == EnsureLabelsTarget(config_label_translations,
                                             cur.issue.labels)
            IN /\ cur' = [cur EXCEPT !.target = target,
                                     !.todo = target \ labels]
               /\ mainPc' = "ensure_labels"
    /\ UNCHANGED <<unitVars, optVars, gen, emitted, abort, queueVars, workerVars,
                   registryVars, gh, hist>>

\* answers of GitHub to a label or milestone POST
CreateStatuses == {201, 422}

\* one iteration of `for label in labels.difference(self.labels)`, then
\* the rest of convert_issue up to the milestone
MainEnsureLabels ==
    /\ mainPc = "ensure_labels"
    /\ IF cur.todo # {}
       THEN \E label \in cur.todo :
              IF dry_run
              THEN /\ labels' = labels \cup {label}
                   /\ cur' = [cur EXCEPT !.todo = @ \ {label}]
                   /\ UNCHANGED <<mainPc, gh, hist>>
              ELSE \E status \in CreateStatuses :
                     IF status = 201
                     THEN /\ gh' = [gh EXCEPT !.labels = @ \cup {label}]
                          /\ labels' = labels \cup {label}
                          /\ cur' = [cur EXCEPT !.todo = @ \ {label}]
                          /\ hist' = NoteWrite(hist, "label", cur.issue.id)
                          /\ UNCHANGED mainPc
                     ELSE /\ mainPc' = "raised"
                          /\ hist' = [NoteWrite(hist, "label", cur.issue.id)
                                        EXCEPT !.main_error = "label"]
                          /\ UNCHANGED <<gh, labels, cur>>
       ELSE /\ cur' = [cur EXCEPT !.gh_issue =
                         [title |-> cur.issue.title,
                          closed |-> IsClosed(cur.issue.state),
                          labels |-> cur.target,
                          milestone |-> 0]]
            /\ mainPc' = "milestone"
            /\ UNCHANGED <<labels, gh, hist>>
    /\ UNCHANGED <<unitVars, optVars, gen, emitted, abort, queueVars, workerVars,
                   milestones>>

\* `if milestone and milestone['name']: gh.ensure_milestone(...)`
MainEnsureMilestone ==
    /\ mainPc = "milestone"
    /\ LET title == cur.issue.milestone
       IN IF title = None \/ title = Str_empty
          THEN /\ mainPc' = "convert_changes"
               /\ UNCHANGED <<cur, milestones, gh, hist>>
          ELSE IF title \in DOMAIN milestones
          THEN /\ cur' = [cur EXCEPT !.gh_issue.milestone = milestones[title]]
               /\ mainPc' = "convert_changes"
               /\ UNCHANGED <<milestones, gh, hist>>
          ELSE IF dry_run
          THEN \* random.randint(1000000) lacks its second argument
               /\ MainRaise("randint")
               /\ UNCHANGED <<cur, milestones, gh>>
          ELSE \E status \in CreateStatuses :
                 IF status = 201
                 THEN LET number == Cardinality(DOMAIN gh.milestones) + 1
                      IN /\ gh' = [gh EXCEPT !.milestones =
                                     @ @@ (title :> number)]
                         /\ milestones' = milestones @@ (title :> number)
                         /\ cur' = [cur EXCEPT !.gh_issue.milestone = number]
                         /\ hist' = NoteWrite(hist, "milestone", cur.issue.id)
                         /\ mainPc' = "convert_changes"
                 ELSE /\ mainPc' = "raised"
                      /\ hist' = [NoteWrite(hist, "milestone", cur.issue.id)
                                    EXCEPT !.main_error = "milestone"]
                      /\ UNCHANGED <<cur, milestones, gh>>
    /\ UNCHANGED <<unitVars, optVars, gen, emitted, abort, queueVars, workerVars,
                   labels>>

\* gh_comments, and the change annotations under --mention-changes:
\* convert_change takes four arguments and is called with five
MainConvertChanges ==
    /\ mainPc = "convert_changes"
    /\ IF mention_changes /\ cur.changes > 0
       THEN /\ MainRaise("convert_change")
            /\ UNCHANGED cur
       ELSE /\ cur' = [cur EXCEPT !.gh_comments = cur.issue.comments]
            /\ mainPc' = "put"
            /\ UNCHANGED hist
    /\ UNCHANGED <<unitVars, optVars, gen, emitted, abort, queueVars, workerVars,
                   registryVars, gh>>

\* work_queue.put((issue['id'], gh_issue, gh_comments))
MainPut ==
    /\ mainPc = "put"
    /\ work_queue' = Append(work_queue,
                            [id |-> cur.issue.id, gh_issue |-> cur.gh_issue,
                             gh_comments |-> cur.gh_comments])
    /\ unfinished' = unfinished + 1
    /\ hist' = [hist EXCEPT !.puts = @ + 1,
                             !.enq = Append(@, [id |-> cur.issue.id,
                                                gh_issue |-> cur.gh_issue,
                                                gh_comments |->
                                                  cur.gh_comments])]
    /\ mainPc' = "for"
    /\ UNCHANGED <<unitVars, optVars, gen, emitted, abort, cur, workerVars,
                   registryVars, gh>>

\* main() clears the event it found set
MainAfterLoop_clears ==
    /\ mainPc = "after_loop"
    /\ mainPc' = IF abort THEN "done" ELSE "join"
    /\ abort' = FALSE
    /\ UNCHANGED <<unitVars, optVars, gen, emitted, queueVars, cur, workerVars,
                   registryVars, gh, hist>>

\* `if not abort_event.is_set(): work_queue.join()`
MainAfterLoop ==
    /\ mainPc = "after_loop"
    /\ mainPc' = IF abort THEN "done" ELSE "join"
    /\ UNCHANGED <<unitVars, optVars, gen, emitted, abort, queueVars, cur, workerVars,
                   registryVars, gh, hist>>

\* main() goes on without waiting for the queue
MainJoin_no_wait ==
    /\ mainPc = "join"
    /\ mainPc' = "done"
    /\ UNCHANGED <<unitVars, optVars, gen, emitted, abort, queueVars, cur, workerVars,
                   registryVars, gh, hist>>

\* Queue.join() returns once unfinished_tasks is zero
MainJoin ==
    /\ mainPc = "join"
    /\ unfinished = 0
    /\ mainPc' = "done"
    /\ UNCHANGED <<unitVars, optVars, gen, emitted, abort, queueVars, cur, workerVars,
                   registryVars, gh, hist>>

Main ==
    \/ MainFor
    \/ MainCheckAbort
    \/ MainFetch
    \/ MainConvertIssue
    \/ MainEnsureLabels
    \/ MainEnsureMilestone
    \/ MainConvertChanges
    \/ MainPut
    \/ MainAfterLoop
    \/ MainJoin

(***************************************************************************)
(* The consumer: main.push_issues with GitHub.push_github_issue and        *)
(* GitHub._verify_github_issue_import_finished.                            *)
(***************************************************************************)
mainVars == <<gen, emitted, mainPc, cur>>

\* `while not abort.is_set()`
WorkerWhile ==
    /\ workerPc = "while"
    /\ IF abort
       THEN /\ workerPc' = "exited"
            /\ hist' = [hist EXCEPT !.worker_saw_abort = TRUE]
       ELSE /\ workerPc' = "get"
            /\ UNCHANGED hist
    /\ UNCHANGED <<unitVars, optVars, mainVars, abort, queueVars, task, registryVars,
                   gh>>

\* the queue hands out the task put last
WorkerGet_lifo ==
    /\ workerPc = "get"
    /\ IF work_queue # <<>>
       THEN /\ task' = [NoTask EXCEPT
                          !.id = work_queue[Len(work_queue)].id,
                          !.gh_issue = work_queue[Len(work_queue)].gh_issue,
                          !.gh_comments =
                              work_queue[Len(work_queue)].gh_comments]
            /\ work_queue' = SubSeq(work_queue, 1, Len(work_queue) - 1)
            /\ hist' = [hist EXCEPT !.gets = @ + 1]
            /\ workerPc' = "push"
       ELSE /\ IF abort
               THEN /\ workerPc' = "exited"
                    /\ hist' = [hist EXCEPT !.worker_saw_abort = TRUE]
               ELSE /\ workerPc' = "while"
                    /\ UNCHANGED hist
            /\ UNCHANGED <<task, work_queue>>
    /\ UNCHANGED <<unitVars, optVars, mainVars, abort, unfinished, registryVars, gh>>

\* `work_queue.get(timeout=3)` and its `except queue.Empty`
WorkerGet ==
    /\ workerPc = "get"
    /\ IF work_queue # <<>>
       THEN /\ task' = [NoTask EXCEPT !.id = Head(work_queue).id,
                                      !.gh_issue = Head(work_queue).gh_issue,
                                      !.gh_comments =
                                          Head(work_queue).gh_comments]
            /\ work_queue' = Tail(work_queue)
            /\ hist' = [hist EXCEPT !.gets = @ + 1]
            /\ workerPc' = "push"
       ELSE /\ IF abort
               THEN /\ workerPc' = "exited"
                    /\ hist' = [hist EXCEPT !.worker_saw_abort = TRUE]
               ELSE /\ workerPc' = "while"
                    /\ UNCHANGED hist
            /\ UNCHANGED <<task, work_queue>>
    /\ UNCHANGED <<unitVars, optVars, mainVars, abort, unfinished, registryVars, gh>>

\* an exception leaves push_github_issue
WorkerRaise(h, err) == [h EXCEPT !.fatal = err]

\* answers of GitHub to the import POST
PushStatuses == {202, 422, 500}

\* a 422 is not told from an accepted POST
PushOutcome_422_accepted(status) ==
    IF status \notin {202, 422} THEN "post" ELSE "posted"

\* what push_github_issue does on the answer to its POST: goes on to the
\* status polling or raises
PushOutcome(status) ==
    IF status = 422 THEN "validation"
    ELSE IF status # 202 THEN "post"
    ELSE "posted"

\* push_github_issue up to the status polling
WorkerPush ==
    /\ workerPc = "push"
    /\ IF dry_run
       THEN /\ workerPc' = "finally"
            /\ hist' = [hist EXCEPT !.returned = @ \cup {task.id}]
            /\ UNCHANGED <<gh, task>>
       ELSE \E status \in PushStatuses :
              LET h == [NoteWrite(hist, "import", task.id)
                          EXCEPT !.pushed = Append(@, task.id),
                                 !.all_ok = @ /\ status = 202]
                  outcome == PushOutcome(status)
              IN /\ task' = [task EXCEPT !.resp = Resp("push", status, "")]
                 /\ IF outcome = "posted"
                    THEN /\ gh' = [gh EXCEPT !.pending = TRUE]
                         /\ hist' = h
                         /\ workerPc' = "poll"
                    ELSE /\ hist' = WorkerRaise(h, outcome)
                         /\ workerPc' = "except"
                         /\ UNCHANGED gh
    /\ UNCHANGED <<unitVars, optVars, mainVars, abort, queueVars, registryVars>>

\* GitHub finishes the pending import: the issue gets the next number
GhImport(g, t) ==
    [g EXCEPT !.pending = FALSE,
              !.issues = Append(@, [src |-> t.id, gh_issue |-> t.gh_issue,
                                    gh_comments |-> t.gh_comments])]

\* GitHub drops the pending import
GhDrop(g) == [g EXCEPT !.pending = FALSE]

\* what a GET of the status url can answer
PollAnswers ==
    {[code |-> 403, status |-> ""], [code |-> 404, status |-> ""],
     [code |-> 500, status |-> ""], [code |-> 200, status |-> "pending"],
     [code |-> 200, status |-> "imported"],
     [code |-> 200, status |-> "failed"],
     [code |-> 200, status |-> "error"]}

\* a 'pending' answer ends the polling like a 404
VerifyOutcome_pending_returns(answer, verify_issue_id, gh_issue_id) ==
    IF answer.code \in {403, 404} THEN "return"
    ELSE IF answer.code # 200 THEN "http"
    ELSE IF answer.status = "pending" THEN "return"
    ELSE IF answer.status = "imported"
         THEN IF gh_issue_id # verify_issue_id THEN "desync" ELSE "ok"
    ELSE IF answer.status = "failed" THEN "failed"
    ELSE "status"

\* only a 404 is taken for the harmless answer, a 403 raises
VerifyOutcome_403_raises(answer, verify_issue_id, gh_issue_id) ==
    IF answer.code = 404 THEN "return"
    ELSE IF answer.code # 200 THEN "http"
    ELSE IF answer.status = "pending" THEN "again"
    ELSE IF answer.status = "imported"
         THEN IF gh_issue_id # verify_issue_id THEN "desync" ELSE "ok"
    ELSE IF answer.status = "failed" THEN "failed"
    ELSE "status"

\* the check of the GitHub id against verify_issue_id is left out
VerifyOutcome_unchecked(answer, verify_issue_id, gh_issue_id) ==
    IF answer.code \in {403, 404} THEN "return"
    ELSE IF answer.code # 200 THEN "http"
    ELSE IF answer.status = "pending" THEN "again"
    ELSE IF answer.status = "imported" THEN "ok"
    ELSE IF answer.status = "failed" THEN "failed"
    ELSE "status"

\* the outcome of _verify_github_issue_import_finished for one answer:
\* "again" (sleep and poll again), "return", "ok" (imported and checked)
\* or the error it raises
VerifyOutcome(answer, verify_issue_id, gh_issue_id) ==
    IF answer.code \in {403, 404} THEN "return"
    ELSE IF answer.code # 200 THEN "http"
    ELSE IF answer.status = "pending" THEN "again"
    ELSE IF answer.status = "imported"
         THEN IF gh_issue_id # verify_issue_id THEN "desync" ELSE "ok"
    ELSE IF answer.status = "failed" THEN "failed"
    ELSE "status"

\* one GET of the status url and what follows it
WorkerPoll ==
    /\ workerPc = "poll"
    /\ \E answer \in PollAnswers, created \in BOOLEAN :
         \* an answer of 'imported' means the issue exists, 'failed' that it
         \* does not; any other answer leaves both possible
         /\ answer.status = "imported" => created
         /\ answer.status \in {"failed", "pending"} => ~created
         /\ answer.status = "pending" => task.polls < MaxPolls
         /\ LET g == IF created THEN GhImport(gh, task)
                     ELSE IF answer.status = "pending" THEN gh
                     ELSE GhDrop(gh)
                gh_issue_id == Len(g.issues)
                outcome == VerifyOutcome(answer, task.id, gh_issue_id)
                reported == answer.code = 200 /\ answer.status = "imported"
                h == [hist EXCEPT
                        !.imported = IF reported
                                     THEN @ \cup {<<task.id, gh_issue_id>>}
                                     ELSE @,
                        !.all_ok = @ /\ answer.code = 200 /\
                                   answer.status \in {"pending", "imported"}]
            IN /\ gh' = g
               /\ task' = [task EXCEPT
                             !.resp = Resp("poll", answer.code, answer.status),
                             !.polls = IF outcome = "again" THEN @ + 1 ELSE @]
               /\ CASE outcome = "again" ->
                         /\ hist' = h
                         /\ UNCHANGED workerPc
                    [] outcome \in {"return", "ok"} ->
                         /\ workerPc' = "finally"
                         /\ hist' = [h EXCEPT !.returned = @ \cup {task.id}]
                    [] OTHER ->
                         /\ workerPc' = "except"
                         /\ hist' = WorkerRaise(h, outcome)
    /\ UNCHANGED <<unitVars, optVars, mainVars, abort, queueVars, registryVars>>

\* positions of main() inside a loop iteration, after its abort check
InIteration ==
    {"fetch", "convert_issue", "ensure_labels", "milestone",
     "convert_changes", "put"}

\* `except: abort.set(); raise`
WorkerExcept ==
    /\ workerPc = "except"
    /\ abort' = TRUE
    /\ task' = [task EXCEPT !.raising = TRUE]
    /\ hist' = [hist EXCEPT
                  !.worker_saw_abort = TRUE,
                  !.abort_iter = IF mainPc \in InIteration
                                 THEN cur.issue.id ELSE 0]
    /\ workerPc' = "finally"
    /\ UNCHANGED <<unitVars, optVars, mainVars, queueVars, registryVars, gh>>

\* `finally: work_queue.task_done()`, then the exception ends the thread
\* or the loop goes round
WorkerFinally ==
    /\ workerPc = "finally"
    /\ unfinished' = unfinished - 1
    /\ hist' = [hist EXCEPT !.dones = @ + 1]
    /\ workerPc' = IF task.raising THEN "dead" ELSE "while"
    /\ UNCHANGED <<unitVars, optVars, mainVars, abort, work_queue, task, registryVars,
                   gh>>

Worker ==
    \/ WorkerWhile
    \/ WorkerGet
    \/ WorkerPush
    \/ WorkerPoll
    \/ WorkerExcept
    \/ WorkerFinally

Next == Main \/ Worker

Spec == Init /\ [][Next]_vars

(***************************************************************************)
(* The pipeline of the single-file script migrate.py: the same loop and    *)
(* queue, a consumer without try/finally.  The payload of the tuples is    *)
(* carried by id, title, state and comment count only.                     *)
(***************************************************************************)
\* one iteration of main()'s loop from the fetch of comments and changes
\* to the tuple that is put
LegacyMainIteration ==
    /\ mainPc = "fetch"
    /\ \E status \in BbStatuses, created \in BOOLEAN :
         LET changes == IF cur.issue.dummy THEN 0
                        ELSE get_issue_changes(status, cur.issue.changes)
         IN IF ~cur.issue.dummy /\ status \notin {200, 500}
            THEN /\ MainRaise("bitbucket")
                 /\ UNCHANGED cur
            ELSE IF ~cur.issue.dummy /\ ~created
            THEN \* gh_labels.ensure or gh_milestones.ensure got a refusal
                 /\ MainRaise("label")
                 /\ UNCHANGED cur
            ELSE IF mention_changes /\ changes = 0
            THEN \* `last_change = changes[-1]` on an empty list
                 /\ MainRaise("IndexError")
                 /\ UNCHANGED cur
            ELSE /\ cur' = [cur EXCEPT
                              !.changes = changes,
                              !.gh_issue =
                                IF cur.issue.dummy THEN DummyGhIssue
                                ELSE [DummyGhIssue EXCEPT
                                        !.title = cur.issue.title,
                                        !.closed = IsClosed(cur.issue.state)],
                              !.gh_comments =
                                cur.issue.comments +
                                (IF mention_changes THEN changes ELSE 0)]
                 /\ mainPc' = "put"
                 /\ UNCHANGED hist
    /\ UNCHANGED <<unitVars, optVars, gen, emitted, abort, queueVars, workerVars,
                   registryVars, gh>>

\* after the loop main() calls work_queue.join() whatever abort says
LegacyMainAfterLoop ==
    /\ mainPc = "after_loop"
    /\ mainPc' = "join"
    /\ UNCHANGED <<unitVars, optVars, gen, emitted, abort, queueVars, cur, workerVars,
                   registryVars, gh, hist>>

\* push_issues from the dry_run test to the answer to the import POST
LegacyPush ==
    /\ workerPc = "push"
    /\ IF dry_run
       THEN \* `continue`: back to the loop test, past task_done()
            /\ workerPc' = "while"
            /\ hist' = [hist EXCEPT !.returned = @ \cup {task.id}]
            /\ UNCHANGED <<gh, task>>
       ELSE \E status \in PushStatuses :
              LET h == [NoteWrite(hist, "import", task.id)
                          EXCEPT !.pushed = Append(@, task.id),
                                 !.all_ok = @ /\ status = 202]
                  outcome == PushOutcome(status)
              IN IF outcome = "posted"
                 THEN /\ task' = [task EXCEPT
                                    !.resp = Resp("push", status, "")]
                      /\ gh' = [gh EXCEPT !.pending = TRUE]
                      /\ hist' = h
                      /\ workerPc' = "poll"
                 ELSE \* the RuntimeError ends the thread
                      /\ task' = [task EXCEPT
                                    !.resp = Resp("push", status, ""),
                                    !.raising = TRUE]
                      /\ hist' = WorkerRaise(h, outcome)
                      /\ workerPc' = "dead"
                      /\ UNCHANGED gh
    /\ UNCHANGED <<unitVars, optVars, mainVars, abort, queueVars, registryVars>>

\* one GET of the status url by verify_github_issue_import_finished, and
\* the comparison of the ids that follows its return in push_issues
LegacyPoll ==
    /\ workerPc = "poll"
    /\ \E answer \in PollAnswers, created \in BOOLEAN :
         /\ answer.status = "imported" => created
         /\ answer.status \in {"failed", "pending"} => ~created
         /\ answer.status = "pending" => task.polls < MaxPolls
         /\ LET g == IF created THEN GhImport(gh, task)
                     ELSE IF answer.status = "pending" THEN gh
                     ELSE GhDrop(gh)
                gh_issue_id == Len(g.issues)
                outcome == VerifyOutcome(answer, task.id, gh_issue_id)
                reported == answer.code = 200 /\ answer.status = "imported"
                h == [hist EXCEPT
                        !.imported = IF reported
                                     THEN @ \cup {<<task.id, gh_issue_id>>}
                                     ELSE @,
                        !.all_ok = @ /\ answer.code = 200 /\
                                   answer.status \in {"pending", "imported"}]
                r == Resp("poll", answer.code, answer.status)
            IN /\ gh' = g
               /\ CASE outcome = "again" ->
                         /\ task' = [task EXCEPT !.resp = r,
                                                 !.polls = @ + 1]
                         /\ hist' = h
                         /\ UNCHANGED <<workerPc, abort>>
                    [] outcome \in {"return", "ok"} ->
                         /\ task' = [task EXCEPT !.resp = r]
                         /\ workerPc' = "task_done"
                         /\ hist' = [h EXCEPT !.returned = @ \cup {task.id}]
                         /\ UNCHANGED abort
                    [] outcome = "desync" ->
                         \* `abort.set(); raise Exception(...)`
                         /\ task' = [task EXCEPT !.resp = r,
                                                 !.raising = TRUE]
                         /\ abort' = TRUE
                         /\ workerPc' = "dead"
                         /\ hist' = WorkerRaise(h, outcome)
                    [] OTHER ->
                         /\ task' = [task EXCEPT !.resp = r,
                                                 !.raising = TRUE]
                         /\ workerPc' = "dead"
                         /\ hist' = WorkerRaise(h, outcome)
                         /\ UNCHANGED abort
    /\ UNCHANGED <<unitVars, optVars, mainVars, queueVars, registryVars>>

\* `work_queue.task_done()` at the end of the loop body
LegacyTaskDone ==
    /\ workerPc = "task_done"
    /\ unfinished' = unfinished - 1
    /\ hist' = [hist EXCEPT !.dones = @ + 1]
    /\ workerPc' = "while"
    /\ UNCHANGED <<unitVars, optVars, mainVars, abort, work_queue, task, registryVars,
                   gh>>

LegacyMain ==
    \/ MainFor
    \/ MainCheckAbort
    \/ LegacyMainIteration
    \/ MainPut
    \/ LegacyMainAfterLoop
    \/ MainJoin

LegacyWorker ==
    \/ WorkerWhile
    \/ WorkerGet
    \/ LegacyPush
    \/ LegacyPoll
    \/ LegacyTaskDone

LegacyNext == LegacyMain \/ LegacyWorker

LegacySpec == Init /\ [][LegacyNext]_vars

(***************************************************************************)
(* fill_gaps on its own, over inputs that need not be sorted.              *)
(***************************************************************************)
RECURSIVE SeqsUpTo(_, _)
SeqsUpTo(S, n) ==
    IF n = 0 THEN {<<>>}
    ELSE SeqsUpTo(S, n - 1) \cup
         {Append(q, x) : q \in {r \in SeqsUpTo(S, n - 1) : Len(r) = n - 1},
                         x \in S}

GapInputs == SeqsUpTo(UNION {RealIssues(n) : n \in 1..MaxGapId}, MaxGapLen)

GapInit ==
    \E off \in 0..MaxOffset, in \in GapInputs :
      /\ dry_run = FALSE
      /\ mention_changes = FALSE
      /\ PipelineInit(in, off, 0, {})

\* list(fill_gaps(issues, skip)), one next() at a time
GapPull ==
    /\ ~GenExhausted(issues, gen)
    /\ LET r == fill_gaps(issues, gen)
       IN /\ gen' = r.gen
          /\ emitted' = Append(emitted, r.item)
    /\ UNCHANGED <<unitVars, optVars, abort, queueVars, mainPc, cur, workerVars,
                   registryVars, gh, hist>>

GapNext == GapPull

GapSpec == GapInit /\ [][GapNext]_vars

(***************************************************************************)
(* The registries on their own: a sequence of ensure_labels and            *)
(* ensure_milestone calls on one GitHub object.                            *)
(***************************************************************************)
M_2_0 == <<"2", ".", "0">>

\* names handed to ensure_labels
RawLabels ==
    {L_bug, L_a_comma_b, Str_none_paren, Str_None, Str_empty, None}

LabelArgs == {s \in SUBSET RawLabels : Cardinality(s) <= MaxNames}

MilestoneArgs == {M_1_0, M_2_0}

\* config['label_translations']: empty, renaming one name to another and
\* one name to the "None" sentinel, or renaming one name to another that
\* is a label of its own
RegTables ==
    {<<>>, (L_a_comma_b :> L_bug) @@ (L_bug :> Str_None),
     (L_a_comma_b :> L_bug)}

\* what _load_labels and _load_milestones can find in the repository
RegListings ==
    {[labels |-> {}, milestones |-> <<>>],
     [labels |-> {L_bug}, milestones |-> (M_1_0 :> 1)]}

RegSpecInit ==
    \E table \in RegTables, listing \in RegListings :
      /\ dry_run \in BOOLEAN
      /\ mention_changes = FALSE
      /\ issues = <<>>
      /\ skip = 0
      /\ gen = GenInit(0)
      /\ emitted = <<>>
      /\ abort = FALSE
      /\ work_queue = <<>>
      /\ unfinished = 0
      /\ mainPc = "for"
      /\ cur = CurInit
      /\ workerPc = "while"
      /\ task = NoTask
      /\ hist = HistInit
      /\ labels = listing.labels
      /\ milestones = listing.milestones
      /\ gh = [issues |-> <<>>, labels |-> listing.labels,
               milestones |-> listing.milestones, pending |-> FALSE]
      /\ reg = RegInit(table)
      /\ chg = ChgIdle

RegRecord(rec) ==
    /\ labels' = IF rec.op = "ensure_labels" THEN rec.cache ELSE labels
    /\ milestones' = IF rec.op = "ensure_milestone" THEN rec.cache
                     ELSE milestones
    /\ gh' = IF rec.op = "ensure_labels"
             THEN [gh EXCEPT !.labels = rec.remote]
             ELSE [gh EXCEPT !.milestones = rec.remote]
    /\ reg' = [reg EXCEPT !.calls = Append(@, rec), !.raised = rec.raised]

\* gh.ensure_labels(names)
RegEnsureLabels ==
    /\ ~reg.raised
    /\ Len(reg.calls) < MaxCalls
    /\ \E names \in LabelArgs :
         LET todo == EnsureLabelsTarget(reg.label_translations, names)
                       \ labels
         IN \E order \in Orders(todo),
               statuses \in [1..Cardinality(todo) -> CreateStatuses] :
              RegRecord(ensure_labels(reg.label_translations, names, labels,
                                      gh.labels, order, statuses, dry_run))
    /\ UNCHANGED <<optVars, mainVars, abort, queueVars, workerVars, hist,
                   chg>>

\* gh.ensure_milestone(title)
RegEnsureMilestone ==
    /\ ~reg.raised
    /\ Len(reg.calls) < MaxCalls
    /\ \E title \in MilestoneArgs, status \in CreateStatuses :
         RegRecord(ensure_milestone(title, milestones, gh.milestones,
                                    status, dry_run))
    /\ UNCHANGED <<optVars, mainVars, abort, queueVars, workerVars, hist,
                   chg>>

RegNext == RegEnsureLabels \/ RegEnsureMilestone

RegSpec == RegSpecInit /\ [][RegNext]_vars

(***************************************************************************)
(* format_change_body on its own: one change event, rendered repeatedly.   *)
(***************************************************************************)
StateValues ==
    {Str_empty, S_open, S_new, S_on_hold, S_resolved, S_duplicate,
     S_wontfix, S_closed}

PlainValues == {None, Str_empty, Str_none_paren, L_bug}

\* the old/new pairs a field of a change event can carry
FieldValues(field) ==
    CASE field = "state" ->
           {p \in {[old |-> o, new |-> n] : o \in StateValues,
                                               n \in StateValues} :
              p.old # p.new}
      [] field = "title" ->
           {[old |-> o, new |-> n] : o \in PlainValues, n \in PlainValues}
      [] field = "kind" ->
           {[old |-> o, new |-> n] : o \in PlainValues \ {Str_empty},
                                     n \in PlainValues \ {Str_empty}}
      [] field = "priority" ->
           {[old |-> o, new |-> L_major] : o \in {None, L_bug}}
      [] field = "attachment" ->
           {[old |-> o, new |-> F_png] : o \in {None, L_bug}}
      [] OTHER -> {[old |-> L_bug, new |-> L_major]}

EventFields ==
    {"state", "title", "kind", "priority", "content", "attachment",
     "assignee_account_id"}

RECURSIVE EventsOver(_)
\* the events that change exactly the fields F
EventsOver(F) ==
    IF F = {} THEN {<<>>}
    ELSE LET f == CHOOSE x \in F : TRUE
         IN {e @@ (f :> v) : e \in EventsOver(F \ {f}), v \in FieldValues(f)}

Events ==
    UNION {EventsOver(F) :
             F \in {G \in SUBSET EventFields : Cardinality(G) <= MaxFields}}

\* config['states_as_labels'] and config['label_translations']
ChgConfigs ==
    {[states_as_labels |-> {}, label_translations |-> <<>>],
     [states_as_labels |-> {S_wontfix}, label_translations |-> <<>>],
     [states_as_labels |-> {S_wontfix},
      label_translations |-> (S_wontfix :> L_a_comma_b)]}

ChgSpecInit ==
    \E changes \in Events, config \in ChgConfigs :
      /\ dry_run = FALSE
      /\ mention_changes = TRUE
      /\ issues = <<>>
      /\ skip = 0
      /\ gen = GenInit(0)
      /\ emitted = <<>>
      /\ abort = FALSE
      /\ work_queue = <<>>
      /\ unfinished = 0
      /\ mainPc = "for"
      /\ cur = CurInit
      /\ workerPc = "while"
      /\ task = NoTask
      /\ hist = HistInit
      /\ labels = {}
      /\ milestones = <<>>
      /\ gh = [issues |-> <<>>, labels |-> {}, milestones |-> <<>>,
               pending |-> FALSE]
      /\ reg = RegInit(config.label_translations)
      /\ chg = ChgInit(changes, config)

\* convert_change(change, options, config, gh) and the format_change_body
\* it calls
ChgFormat ==
    /\ Len(chg.calls) < MaxBodies
    /\ LET c == Classify(chg.changes, chg.config)
       IN \E body \in Bodies(c) :
            chg' = [chg EXCEPT !.calls =
                      Append(@, [sets |-> c, body |-> body,
                                 comment |-> convert_change(body)])]
    /\ UNCHANGED <<optVars, mainVars, abort, queueVars, workerVars,
                   registryVars, gh, hist, reg>>

ChgNext == ChgFormat

ChgSpec == ChgSpecInit /\ [][ChgNext]_vars

(***************************************************************************)
(* translate_label on its own, over names of every length up to MaxNameLen.*)
(***************************************************************************)
\* a name of n characters with a comma at every c-th place (none for c = 0)
NameOf(n, c) == [i \in 1..n |-> IF c > 0 /\ i % c = 0 THEN "," ELSE "x"]

CommaEvery == {0, 2, 7}

TrNames ==
    RawLabels \cup {NameOf(n, c) : n \in 0..MaxNameLen, c \in CommaEvery}

TrSpecInit ==
    \E table \in RegTables :
      /\ dry_run = FALSE
      /\ mention_changes = FALSE
      /\ issues = <<>>
      /\ skip = 0
      /\ gen = GenInit(0)
      /\ emitted = <<>>
      /\ abort = FALSE
      /\ work_queue = <<>>
      /\ unfinished = 0
      /\ mainPc = "for"
      /\ cur = CurInit
      /\ workerPc = "while"
      /\ task = NoTask
      /\ hist = HistInit
      /\ labels = {}
      /\ milestones = <<>>
      /\ gh = [issues |-> <<>>, labels |-> {}, milestones |-> <<>>,
               pending |-> FALSE]
      /\ reg = RegInit(table)
      /\ chg = ChgIdle

\* gh.translate_label(name)
TrTranslate ==
    /\ reg.calls = <<>>
    /\ \E name \in TrNames :
         reg' = [reg EXCEPT !.calls =
                   <<[op |-> "translate_label", arg |-> name,
                      ret |-> translate_label(reg.label_translations,
                                              name)]>>]
    /\ UNCHANGED <<optVars, mainVars, abort, queueVars, workerVars,
                   registryVars, gh, hist, chg>>

TrNext == TrTranslate

TrSpec == TrSpecInit /\ [][TrNext]_vars

(***************************************************************************)
(* convert_issue on its own: the closed flag and closed_at of a real       *)
(* issue, from its state and its changes.                                  *)
(***************************************************************************)
\* a date as Bitbucket sends it: an instant, in Bitbucket's format
BbDate(t) == [t |-> t, fmt |-> "bb"]

\* convert_date: the same instant as 'YYYY-MM-DDTHH:MM:SSZ'
convert_date(bb_date) == [t |-> bb_date.t, fmt |-> "gh"]

\* the states a Bitbucket issue can be in
IssueStates ==
    {"new", "open", "on hold", "resolved", "duplicate", "wontfix", "closed"}

\* the issues handed to convert_issue
IssInputs ==
    {[state |-> s, updated_on |-> BbDate(t)] :
       s \in IssueStates, t \in 1..MaxDate}

NoStateChange == [old |-> "-", new |-> "-"]

\* the changes of an issue: without a `state` field, or with one
IssChangeEvents ==
    {[created_on |-> BbDate(t), has_state |-> FALSE, state |-> NoStateChange] :
       t \in 1..MaxDate} \cup
    {[created_on |-> BbDate(t), has_state |-> TRUE,
      state |-> [old |-> o, new |-> n]] :
       t \in 1..MaxDate, o \in {"", "resolved"}, n \in {"new", "resolved"}}

\* the list closed_status of convert_issue, as the set of its dates
closed_status(changes) ==
    {convert_date(changes[k].created_on) :
       k \in {j \in DOMAIN changes :
                /\ changes[j].has_state
                /\ changes[j].state.old \in {"", "open", "new"}
                /\ changes[j].state.new \notin {"", "open", "new"}}}

\* sorted(closed_status)[-1]
LastDate(dates) == CHOOSE d \in dates : \A e \in dates : e.t <= d.t

NoDate == [t |-> 0, fmt |-> "absent"]

\* the 'closed' and 'closed_at' entries of convert_issue's result for a
\* real issue
convert_issue(issue, changes) ==
    LET is_closed == IsClosed(issue.state)
    IN [closed |-> is_closed,
        closed_at |->
          IF ~is_closed THEN NoDate
          ELSE IF closed_status(changes) # {}
          THEN LastDate(closed_status(changes))
          ELSE issue.updated_on]

IssSpecInit ==
    /\ dry_run = FALSE
    /\ mention_changes = FALSE
    /\ issues = <<>>
    /\ skip = 0
    /\ gen = GenInit(0)
    /\ emitted = <<>>
    /\ abort = FALSE
    /\ work_queue = <<>>
    /\ unfinished = 0
    /\ mainPc = "for"
    /\ cur = CurInit
    /\ workerPc = "while"
    /\ task = NoTask
    /\ hist = HistInit
    /\ labels = {}
    /\ milestones = <<>>
    /\ gh = [issues |-> <<>>, labels |-> {}, milestones |-> <<>>,
             pending |-> FALSE]
    /\ reg = RegInit(<<>>)
    /\ chg = ChgIdle

\* convert_issue(issue, comments, changes, ...) for a real issue
IssConvert ==
    /\ reg.calls = <<>>
    /\ \E issue \in IssInputs,
          changes \in SeqsUpTo(IssChangeEvents, MaxIssueChanges) :
         reg' = [reg EXCEPT !.calls =
                   <<[op |-> "convert_issue", arg |-> issue,
                      changes |-> changes,
                      ret |-> convert_issue(issue, changes)]>>]
    /\ UNCHANGED <<optVars, mainVars, abort, queueVars, workerVars,
                   registryVars, gh, hist, chg>>

IssNext == IssConvert

IssSpec == IssSpecInit /\ [][IssNext]_vars

(***************************************************************************)
(* Properties of fill_gaps (GapSpec).                                      *)
(***************************************************************************)
\* ids strictly ascending (hence unique) and all greater than offset
GapPrecondition(in, offset) ==
    /\ \A j \in 1..Len(in) : in[j].id > offset
    /\ \A j \in 1..(Len(in) - 1) : in[j].id < in[j + 1].id

MaxInputId(in, offset) == IF in = <<>> THEN offset ELSE in[Len(in)].id

\* C1: for an input with strictly ascending ids greater than offset,
\* fill_gaps yields the ids offset+1, offset+2, ..., max input id in that
\* order, each once; the item with an id of the input is that input issue
\* unchanged, every other item is DummyIssue(id); an empty input yields
\* nothing.
C1_FillGapsDense ==
    GapPrecondition(issues, skip) =>
      /\ \A k \in 1..Len(emitted) :
           /\ emitted[k].id = skip + k
           /\ IF \E j \in 1..Len(issues) : issues[j].id = skip + k
              THEN \E j \in 1..Len(issues) : emitted[k] = issues[j]
              ELSE emitted[k] = DummyIssue(skip + k)
      /\ Len(emitted) <= MaxInputId(issues, skip) - skip
      /\ GenExhausted(issues, gen) =>
           Len(emitted) = MaxInputId(issues, skip) - skip

\* the generator has run to its end on a sorted input of two issues with a
\* gap before each
C1_Witness ==
    /\ GapPrecondition(issues, skip)
    /\ GenExhausted(issues, gen)
    /\ Len(issues) = 2
    /\ Len(emitted) = 4
    /\ emitted[1].dummy /\ ~emitted[2].dummy
    /\ emitted[3].dummy /\ ~emitted[4].dummy

(***************************************************************************)
(* Properties of the pipeline (Spec).                                      *)
(***************************************************************************)
WorkerStopped == workerPc \in {"except", "finally", "dead"}

\* C2: a poll that reports 'imported' with a GitHub id other than the
\* expected id makes the consumer raise the out-of-sync error, set abort
\* and push nothing any more; so every push that returned normally after
\* an 'imported' report has GitHub id = expected id.
C2_DesyncIsFatal ==
    /\ [](\A p \in hist.imported :
            /\ p[1] \in hist.returned => p[1] = p[2]
            /\ p[1] # p[2] =>
                 /\ hist.fatal = "desync"
                 /\ WorkerStopped
                 /\ workerPc # "except" => abort)
    /\ [][(\E p \in hist.imported : p[1] # p[2]) =>
            hist'.pushed = hist.pushed]_vars

\* the consumer died of a desynchronization while tasks were still queued
C2_Witness ==
    /\ \E p \in hist.imported : p[1] # p[2]
    /\ workerPc = "dead"
    /\ abort
    /\ work_queue # <<>>

\* C3: every run terminates: main() is never left waiting in the queue
\* join with nothing able to release it.
C3_RunTerminates ==
    mainPc = "join" => (unfinished = 0 \/ workerPc \notin {"dead", "exited"})

\* C4: once the producer's check has read abort as set it enqueues
\* nothing more, and once the consumer has seen abort set it pushes
\* nothing more.
C4_NoWorkAfterAbortSeen ==
    [][/\ hist.main_saw_abort => hist'.puts = hist.puts
       /\ hist.worker_saw_abort => hist'.pushed = hist.pushed]_vars

\* the consumer aborted mid-run: tasks are left in the queue, and the
\* producer left its loop holding an issue it never enqueued
C4_Witness ==
    /\ hist.main_saw_abort
    /\ hist.worker_saw_abort
    /\ workerPc = "dead"
    /\ mainPc = "done"
    /\ work_queue # <<>>
    /\ hist.puts < Len(emitted)

\* C5 as stated: once abort is set, no write of any kind reaches GitHub,
\* not even from a producer that was converting an issue at that moment.
C5_NoWriteAfterAbort == hist.late = {}

\* C5 as amended: once abort is set no import is submitted, and the only
\* label or milestone creates are those of the issue the producer was
\* converting when abort was set; an imported issue is never changed.
C5_WritesAfterAbortBounded ==
    /\ [](\A w \in hist.late :
            /\ w[1] \in {"label", "milestone"}
            /\ hist.abort_iter # 0
            /\ w[2] = hist.abort_iter)
    /\ [][\A i \in 1..Len(gh.issues) :
            /\ i <= Len(gh'.issues)
            /\ gh'.issues[i] = gh.issues[i]]_vars

\* the producer created a label or a milestone after abort was set, then
\* left its loop at the next check
C5_Witness ==
    /\ hist.late # {}
    /\ hist.main_saw_abort
    /\ mainPc = "done"
    /\ workerPc = "dead"

\* C6: a fatal error of the consumer sets abort before it leaves the
\* consumer, and main() then does not return normally.
C6_FatalReachesCaller ==
    /\ workerPc = "dead" => abort
    /\ hist.fatal # "none" => mainPc # "done"

Rejected ==
    task.resp \in {Resp("push", 422, ""), Resp("poll", 200, "failed")}

\* C7: when GitHub answers the import POST with 422 or a status poll with
\* 'failed', the consumer raises, sets abort, leaves its loop and submits
\* nothing more.
C7_RejectionIsFatal ==
    /\ [](Rejected =>
            /\ WorkerStopped
            /\ hist.fatal \in {"validation", "failed"}
            /\ workerPc # "except" => abort /\ task.raising)
    /\ [][Rejected => hist'.pushed = hist.pushed]_vars

\* the consumer died of a rejected import while tasks were still queued
C7_Witness ==
    /\ Rejected
    /\ workerPc = "dead"
    /\ abort
    /\ work_queue # <<>>

\* a poll answer that is neither pending, imported nor failed
OtherAnswer ==
    /\ task.resp.phase = "poll"
    /\ ~(task.resp.code = 200 /\
         task.resp.status \in {"pending", "imported", "failed"})

C9_AbortMonotonic == ~abort /\ [][abort => abort']_vars

\* abort was set by the consumer and read by the producer, and both ended
C9_Witness ==
    /\ abort
    /\ hist.main_saw_abort
    /\ mainPc = "done"
    /\ workerPc = "dead"

\* number of issues GitHub held before the run
GhOld == Cardinality({i \in 1..Len(gh.issues) : gh.issues[i].src = 0})

\* C10: in a live run against a repository that held exactly skip issues,
\* with every import accepted and reported imported, no out-of-sync error
\* occurs, GitHub issue n is the source issue n where the source has one
\* and the dummy issue elsewhere, and when main() returns the repository
\* holds skip+1..max id.
C10_IdsStayAligned ==
    ~dry_run /\ GhOld = skip /\ hist.all_ok =>
      /\ hist.fatal = "none"
      /\ \A n \in (skip + 1)..Len(gh.issues) :
           /\ gh.issues[n].src = n
           /\ IF \E j \in 1..Len(issues) : issues[j].id = n
              THEN \E j \in 1..Len(issues) :
                     /\ issues[j].id = n
                     /\ gh.issues[n].gh_issue.title = issues[j].title
              ELSE gh.issues[n].gh_issue = DummyGhIssue
      /\ mainPc = "done" => Len(gh.issues) = MaxInputId(issues, skip)

\* a finished live run with --skip 1 that imported a dummy issue 2 and the
\* real issue 3
C10_Witness ==
    /\ ~dry_run /\ GhOld = skip /\ hist.all_ok
    /\ mainPc = "done"
    /\ skip = 1
    /\ Len(gh.issues) = 3
    /\ gh.issues[2].gh_issue = DummyGhIssue
    /\ gh.issues[3].gh_issue.title = "plain"

(***************************************************************************)
(* Properties of the registries (RegSpec).                                 *)
(***************************************************************************)
Count(seq, x) == Cardinality({k \in DOMAIN seq : seq[k] = x})

LabelCalls == {k \in DOMAIN reg.calls : reg.calls[k].op = "ensure_labels"}

\* a call of ensure_labels directly followed by one with the same names
RepeatedLabelCall(k) ==
    /\ k \in LabelCalls
    /\ k + 1 \in LabelCalls
    /\ reg.calls[k].arg = reg.calls[k + 1].arg
    /\ ~reg.calls[k].raised

\* C11: when ensure_labels is called twice in a row with the same
\* untranslated names and the first call returns, the first call makes
\* exactly one create call for each translated name missing from the cache
\* and none for any other, the second call makes no create call and sends
\* nothing, and both calls return the same set.
C11_EnsureLabelsIdempotent ==
    \A k \in DOMAIN reg.calls :
      RepeatedLabelCall(k) =>
        LET a == reg.calls[k]
            b == reg.calls[k + 1]
        IN /\ \A n \in a.ret :
                Count(a.creates, n) = IF n \in a.before THEN 0 ELSE 1
           /\ \A j \in DOMAIN a.creates : a.creates[j] \in a.ret
           /\ \A j \in DOMAIN a.posts : Count(a.creates, a.posts[j].name) = 1
           /\ b.creates = <<>>
           /\ b.posts = <<>>
           /\ ~b.raised
           /\ b.ret = a.ret

\* two calls in a row with the same names, the first of which created two
\* labels on GitHub
C11_Witness ==
    \E k \in DOMAIN reg.calls :
      /\ RepeatedLabelCall(k)
      /\ Len(reg.calls[k].posts) = 2
      /\ reg.calls[k + 1].ret = reg.calls[k].ret

\* C12 as stated: after every ensure_labels call that returns, in a live run
\* and in a dry run alike, every returned name is in the local cache and in
\* the label set of the GitHub repository.
C12_ReturnedLabelsEverywhere ==
    \A k \in LabelCalls :
      ~reg.calls[k].raised =>
        /\ reg.calls[k].ret \subseteq reg.calls[k].cache
        /\ reg.calls[k].ret \subseteq reg.calls[k].remote

\* C12 amended: after every ensure_labels call that returns, every returned
\* name is in the local cache; in a live run it is in the label set of the
\* GitHub repository too, while a dry run sends no create and leaves the
\* repository as it was.
C12_ReturnedLabelsCachedRemoteWhenLive ==
    \A k \in LabelCalls :
      ~reg.calls[k].raised =>
        /\ reg.calls[k].ret \subseteq reg.calls[k].cache
        /\ ~dry_run => reg.calls[k].ret \subseteq reg.calls[k].remote
        /\ dry_run => reg.calls[k].posts = <<>>

\* a live call that returned after creating a label on GitHub
C12_Witness ==
    \E k \in LabelCalls :
      /\ ~dry_run
      /\ ~reg.calls[k].raised
      /\ reg.calls[k].posts # <<>>
      /\ reg.calls[k].ret # {}

\* what the rename table gives for a name
Renamed(n) == DictGet(reg.label_translations, n, n)

\* C13 as stated: translate_label returns None whenever the rename table
\* gives "(none)", "None", a missing value or the empty string, and
\* ensure_labels on names that all give one of these returns the empty set
\* and makes no create call.
C13_SentinelsAndEmptyDropped ==
    \A k \in LabelCalls :
      LET rec == reg.calls[k]
          dropped == {None, Str_empty, Str_none_paren, Str_None}
      IN /\ \A n \in rec.arg :
              Renamed(n) \in dropped =>
                translate_label(reg.label_translations, n) = None
         /\ ((\A n \in rec.arg : Renamed(n) \in dropped) /\ ~rec.raised) =>
              (rec.ret = {} /\ rec.creates = <<>>)

\* C13 amended: translate_label returns None whenever the rename table
\* gives "(none)", "None" or a missing value, and ensure_labels on names
\* that all give one of these returns the empty set and makes no create
\* call; the empty string is translated to itself and is a label like any
\* other.
C13_SentinelsDropped ==
    \A k \in LabelCalls :
      LET rec == reg.calls[k]
          dropped == {None, Str_none_paren, Str_None}
      IN /\ \A n \in rec.arg :
              /\ Renamed(n) \in dropped =>
                   translate_label(reg.label_translations, n) = None
              /\ Renamed(n) = Str_empty =>
                   translate_label(reg.label_translations, n) = Str_empty
         /\ (\A n \in rec.arg : Renamed(n) \in dropped) =>
              (rec.ret = {} /\ rec.creates = <<>> /\ ~rec.raised)
         /\ (~rec.raised /\ \E n \in rec.arg : Renamed(n) = Str_empty) =>
              Str_empty \in rec.ret

\* ensure_labels was called with two names that give sentinels, one of them
\* through the rename table
C13_Witness ==
    \E k \in LabelCalls :
      /\ Cardinality(reg.calls[k].arg) = 2
      /\ \A n \in reg.calls[k].arg : Renamed(n) \in {None, Str_None}
      /\ \E n \in reg.calls[k].arg : Renamed(n) # n

\* C14: whenever GitHub answers a label or milestone create with a status
\* other than 201, the call raises, that create was the last request of the
\* call and was sent once, the name is not in the local cache afterwards,
\* and no further registry call is made.
C14_FailedCreateIsFatal ==
    \A k \in DOMAIN reg.calls :
      LET rec == reg.calls[k]
          cached == IF rec.op = "ensure_labels" THEN rec.cache
                    ELSE DOMAIN rec.cache
      IN \A j \in DOMAIN rec.posts :
           rec.posts[j].status # 201 =>
             /\ rec.raised
             /\ j = Len(rec.posts)
             /\ k = Len(reg.calls)
             /\ Cardinality({i \in DOMAIN rec.posts :
                               rec.posts[i].name = rec.posts[j].name}) = 1
             /\ rec.posts[j].name \notin cached

\* the second label create of a call was refused after the first succeeded
C14_Witness ==
    \E k \in LabelCalls :
      /\ Len(reg.calls[k].posts) = 2
      /\ reg.calls[k].posts[1].status = 201
      /\ reg.calls[k].posts[2].status # 201
      /\ reg.calls[k].raised

(***************************************************************************)
(* Properties of a dry run and of --mention-changes (Spec).                *)
(***************************************************************************)
\* the tuple a live run in which every write succeeds puts on the queue for
\* an item of fill_gaps when it gets that far
LiveTask(item) ==
    IF item.dummy
    THEN [id |-> item.id, gh_issue |-> DummyGhIssue, gh_comments |-> 0]
    ELSE [id |-> item.id,
          gh_issue |->
            [title |-> item.title,
             closed |-> IsClosed(item.state),
             labels |-> EnsureLabelsTarget(config_label_translations,
                                           item.labels),
             milestone |-> IF item.milestone \in {None, Str_empty}
                           THEN 0 ELSE 1],
          gh_comments |-> item.comments]

\* C15: a dry run sends no write to GitHub, every tuple it enqueues is the
\* tuple the live run with the same source data and successful writes
\* enqueues at that position, and its producer stops early only where that
\* live run stops too (a failed Bitbucket fetch, the call of convert_change).
C15_DryRunMatchesLiveRun ==
    dry_run =>
      /\ ~hist.wrote
      /\ \A k \in DOMAIN hist.enq : hist.enq[k] = LiveTask(emitted[k])
      /\ mainPc = "raised" =>
           hist.main_error \in {"bitbucket", "convert_change"}

\* C16: with --mention-changes the producer gets through convert_change for
\* an issue that has change events and reaches the put with the converted
\* comments followed by one annotation per change event; without the flag
\* the comment list is the converted comments alone.
C16_ChangesAnnotated ==
    /\ hist.main_error # "convert_change"
    /\ mainPc = "put" =>
         cur.gh_comments =
           cur.issue.comments + IF mention_changes THEN cur.changes ELSE 0

(***************************************************************************)
(* Properties of format_change_body (ChgSpec).                             *)
(***************************************************************************)
OpenLike == {Str_empty, S_open, S_new, S_on_hold}
ClosedLike == {S_resolved, S_duplicate, S_wontfix, S_closed}

\* C17: for a change of `state`, the status set holds "closed" whenever the
\* old value of the event is empty, open, new or on hold and the new value is
\* resolved, duplicate, wontfix or closed, it holds "reopened" in the
\* reverse direction, and no field delta is recorded for `state`.
C17_StateTransitions ==
    \A k \in DOMAIN chg.calls :
      "state" \in DOMAIN chg.changes =>
        LET old == chg.changes["state"].old
            new == chg.changes["state"].new
            sets == chg.calls[k].sets
        IN /\ (old \in OpenLike /\ new \in ClosedLike) =>
                "closed" \in sets.status_changes
           /\ (new \in OpenLike /\ old \in ClosedLike) =>
                "reopened" \in sets.status_changes
           /\ \A d \in sets.field_changes : d.field # "state"

\* the event without its attachment field
WithoutAttachment(changes) ==
    [f \in DOMAIN changes \ {"attachment"} |-> changes[f]]

C19_NoEmptyFieldDelta ==
    \A k \in DOMAIN chg.calls :
      /\ ~chg.calls[k].body.raised
      /\ \A d \in chg.calls[k].sets.field_changes :
           Truthy(d.old) \/ Truthy(d.new)

\* C20: every call of format_change_body on the same change event under the
\* same configuration produces the same body.
C20_SameBodyEveryTime ==
    \A i, j \in DOMAIN chg.calls : chg.calls[i].body = chg.calls[j].body

\* the event restricted to the fields of the allow-list
Allowed(changes) ==
    [f \in DOMAIN changes \cap
            {"assignee", "state", "title", "kind", "milestone", "component",
             "priority", "version", "content", "attachment"} |-> changes[f]]

NoSets(sets) ==
    /\ sets.removed_labels = {}
    /\ sets.added_labels = {}
    /\ sets.field_changes = {}
    /\ sets.status_changes = {}
    /\ sets.misc_changes = {}

\* C21: the five sets of an event are those of the event without its fields
\* outside the allow-list, and convert_change returns None exactly when all
\* five sets are empty; it returns a comment only with at least one line.
C21_NoLineNoComment ==
    \A k \in DOMAIN chg.calls :
      LET call == chg.calls[k]
      IN /\ call.sets = Classify(Allowed(chg.changes), chg.config)
         /\ NoSets(call.sets) <=> call.comment.kind = "None"
         /\ call.comment.kind = "None" =>
              (~call.body.raised /\ call.body.lines = <<>>)
         /\ call.comment.kind = "comment" => call.comment.body # <<>>

\* convert_change returned None for an event that changed a field outside
\* the allow-list and a label field from nothing to "(none)"
C21_Witness ==
    /\ chg.calls # <<>>
    /\ DOMAIN chg.changes = {"assignee_account_id", "kind"}
    /\ chg.changes["kind"].old = None
    /\ chg.changes["kind"].new = Str_none_paren
    /\ chg.calls[1].comment.kind = "None"

(***************************************************************************)
(* Properties of the producer and the consumer (Spec), continued.          *)
(***************************************************************************)
\* C22: when the change-history request of an issue is answered 500 the
\* producer goes on with zero changes for that issue: the fetch raises
\* nothing, the annotation step is passed without a call of convert_change,
\* the issue reaches the put with its converted comments alone, and abort
\* is set by nothing but an exception of the consumer.
C22_Changes500IsNoChanges ==
    cur.changes_status = 500 =>
      /\ cur.changes = 0
      /\ mainPc = "raised" =>
           hist.main_error \in {"label", "milestone", "randint"}
      /\ mainPc = "put" => cur.gh_comments = cur.issue.comments
      /\ hist.puts > 0 /\ mainPc \in {"for", "check_abort"} =>
           hist.enq[hist.puts].id = cur.issue.id
      /\ abort => task.raising

\* with --mention-changes, an issue that has a change event was enqueued
\* after its change-history request was answered 500
C22_Witness ==
    /\ cur.changes_status = 500
    /\ mention_changes
    /\ cur.issue.changes > 0
    /\ mainPc = "for"
    /\ hist.puts > 0
    /\ hist.enq[hist.puts].id = cur.issue.id

MilestoneCalls ==
    {k \in DOMAIN reg.calls : reg.calls[k].op = "ensure_milestone"}

\* C24: in a live run and in a dry run alike, ensure_milestone returns the
\* cached number of a cached title without a create; for any other title
\* it makes one create call, raises only if GitHub refused that create, and
\* otherwise caches and returns the number; a later call with the same
\* title returns the same number without a create.
C24_EnsureMilestoneIdempotent ==
    \A k \in MilestoneCalls :
      LET rec == reg.calls[k]
      IN /\ rec.arg \in DOMAIN rec.before =>
              /\ rec.creates = <<>>
              /\ ~rec.raised
              /\ rec.ret = rec.before[rec.arg]
         /\ rec.arg \notin DOMAIN rec.before =>
              /\ rec.creates = <<rec.arg>>
              /\ Len(rec.posts) <= 1
              /\ rec.raised =>
                   (rec.posts # <<>> /\ rec.posts[1].status # 201)
              /\ ~rec.raised =>
                   (rec.arg \in DOMAIN rec.cache /\
                    rec.cache[rec.arg] = rec.ret)
         /\ \A j \in MilestoneCalls :
              (j < k /\ reg.calls[j].arg = rec.arg /\ ~reg.calls[j].raised)
                => (rec.ret = reg.calls[j].ret /\ rec.creates = <<>>)

(***************************************************************************)
(* Properties of translate_label (TrSpec).                                 *)
(***************************************************************************)
NotComma(c) == c # ","

\* a string without its commas, cut to its first 50 characters
StrippedAndCut(s) ==
    LET t == SelectSeq(s, NotComma)
    IN IF Len(t) > 50 THEN SubSeq(t, 1, 50) ELSE t

\* C25: for a name that the rename table does not turn into None, "(none)"
\* or "None", translate_label returns the renamed name without its commas,
\* cut to its first 50 characters: the result has at most 50 characters
\* and no comma, and a comma-free name of 60 characters gives its first 50.
C25_StripCommasThenTruncate ==
    \A k \in DOMAIN reg.calls :
      LET rec == reg.calls[k]
      IN (rec.op = "translate_label" /\
          Renamed(rec.arg) \notin {None, Str_none_paren, Str_None}) =>
           /\ rec.ret = StrippedAndCut(Renamed(rec.arg))
           /\ Len(rec.ret) <= 50
           /\ \A i \in DOMAIN rec.ret : rec.ret[i] # ","
           /\ (Len(rec.arg) = 60 /\ Renamed(rec.arg) = rec.arg /\
               \A i \in DOMAIN rec.arg : rec.arg[i] # ",") =>
                rec.ret = SubSeq(rec.arg, 1, 50)

\* translate_label was handed a comma-free name of 60 characters and
\* returned 50
C25_Witness ==
    /\ reg.calls # <<>>
    /\ reg.calls[1].op = "translate_label"
    /\ Len(reg.calls[1].arg) = 60
    /\ \A i \in DOMAIN reg.calls[1].arg : reg.calls[1].arg[i] # ","
    /\ Len(reg.calls[1].ret) = 50

(***************************************************************************)
(* Properties of the producer and the consumer (Spec): order and           *)
(* completion of the submissions.                                          *)
(***************************************************************************)
\* push_github_issue has returned normally from a live submission
LivePushReturned == workerPc = "finally" /\ ~dry_run /\ ~task.raising

\* C27 as stated: on every return path of push_github_issue the submitted
\* import has been observed in a non-pending status, so the last answer of
\* the status url was a 200 whose status is not 'pending'.
C27_AsStated ==
    LivePushReturned =>
      /\ task.resp.phase = "poll"
      /\ task.resp.code = 200
      /\ task.resp.status # "pending"

\* C27 (amended): a live push_github_issue returns normally only after a
\* status answer of 200 'imported', or after a 403 or 404 on the status
\* url, where no status was observed; a 'pending' answer is never the last
\* one of a call, it is always followed by another poll.
C27_ReturnAfterImportedOr40x ==
    /\ LivePushReturned =>
         /\ task.resp.phase = "poll"
         /\ \/ task.resp.code = 200 /\ task.resp.status = "imported"
            \/ task.resp.code \in {403, 404}
    /\ task.resp.status = "pending" => workerPc = "poll"

\* a submission was answered 'pending', then 'imported', and returned
C27_Witness ==
    /\ LivePushReturned
    /\ task.polls >= 1
    /\ task.resp.code = 200
    /\ task.resp.status = "imported"

\* C26: the consumer submits the tasks in the order the producer put them
\* on the queue, each at most once: the k-th POST of a run carries the id
\* of the k-th tuple put, which is offset + k, and the task the consumer
\* holds is the one its latest get took from the head of the queue.
C26_SubmitsInQueueOrder ==
    /\ Len(hist.pushed) <= hist.gets
    /\ hist.gets <= hist.puts
    /\ \A k \in DOMAIN hist.pushed :
         /\ hist.pushed[k] = hist.enq[k].id
         /\ hist.pushed[k] = skip + k
    /\ workerPc \in {"push", "poll", "except", "finally"} =>
         task.id = hist.enq[hist.gets].id
    /\ \A k \in DOMAIN work_queue :
         work_queue[k] = hist.enq[hist.gets + k]

\* with an offset, the second POST of a run was sent
C26_Witness ==
    /\ skip > 0
    /\ ~dry_run
    /\ Len(hist.pushed) >= 2

\* the consumer holds a task it took from the queue
WorkerMidTask == workerPc \in {"push", "poll", "except", "finally"}

\* main() has returned from a run in which nothing raised
ReturnedClean == mainPc = "done" /\ hist.fatal = "none"

\* C28: when main() returns from a run with no fatal error, every tuple it
\* put on the queue has been taken and handed to push_github_issue exactly
\* once and its task_done() is made: nothing is left queued or in flight;
\* and in no run is an id POSTed twice.
C28_JoinIsBarrier ==
    /\ ReturnedClean =>
         /\ work_queue = <<>>
         /\ unfinished = 0
         /\ ~WorkerMidTask
         /\ hist.gets = hist.puts
         /\ hist.dones = hist.puts
         /\ hist.returned = {hist.enq[k].id : k \in DOMAIN hist.enq}
         /\ Cardinality(hist.returned) = hist.puts
         /\ ~dry_run => Len(hist.pushed) = hist.puts
    /\ \A i, j \in DOMAIN hist.pushed :
         i # j => hist.pushed[i] # hist.pushed[j]

\* main() returned from a live run that put and pushed two issues
C28_Witness ==
    /\ ReturnedClean
    /\ ~dry_run
    /\ hist.puts >= 2
    /\ Len(hist.pushed) >= 2

\* C29: abort is set only with the consumer in its `except`, never by the
\* producer; once the producer has read abort as set it is out of its loop,
\* the issue it had just taken from fill_gaps is not put and nothing more
\* is taken, it never waits in join(), and main() does not raise.
C29_ProducerLeavesOnAbort ==
    /\ abort => hist.fatal # "none" /\ workerPc \in {"finally", "dead"}
    /\ hist.main_saw_abort =>
         /\ abort
         /\ mainPc \in {"after_loop", "done"}
         /\ hist.main_error = "none"
         /\ hist.puts = Len(emitted) - 1

\* main() returned on abort while the consumer had not yet made the
\* task_done() of the task that raised
C29_Witness ==
    /\ hist.main_saw_abort
    /\ mainPc = "done"
    /\ workerPc = "finally"
    /\ unfinished > 0

\* the consumer holds no task: it is at its loop test, waiting in get, or
\* its thread has ended
WorkerAtRest == workerPc \in {"while", "get", "exited", "dead"}

\* C30: every successful get is followed by exactly one task_done(),
\* whether the push succeeded, was skipped in a dry run, returned early or
\* raised: task_done() calls never exceed the gets, and whenever the
\* consumer holds no task they equal the gets and unfinished_tasks is the
\* number of tuples still on the queue.
C30_QueueAccounting ==
    /\ hist.dones <= hist.gets
    /\ WorkerAtRest =>
         /\ hist.dones = hist.gets
         /\ unfinished = Len(work_queue)

(***************************************************************************)
(* Properties of the registries over a whole run (RegSpec).                *)
(***************************************************************************)
\* the label listing loaded by _load_labels: the cache the first
\* ensure_labels call found
InitialLabels ==
    IF LabelCalls = {} THEN {}
    ELSE reg.calls[CHOOSE k \in LabelCalls : \A j \in LabelCalls : k <= j].before

\* the _create_label calls of the run, as <<call, position>>
CreateSites ==
    UNION {{<<k, i>> : i \in DOMAIN reg.calls[k].creates} : k \in LabelCalls}

\* the label POSTs of the run, as <<call, position>>
PostSites ==
    {s \in CreateSites : s[2] \in DOMAIN reg.calls[s[1]].posts}

\* two different names of one call translate to the same label
Collides(names) ==
    \E a, b \in names :
      /\ a # b
      /\ translate_label(reg.label_translations, a) # None
      /\ translate_label(reg.label_translations, a) =
           translate_label(reg.label_translations, b)

\* C31: over a whole run _create_label is called, and a label POST is
\* sent, at most once for any translated name and never for a name of the
\* label listing loaded at the start, also when different source names
\* translate to the same label within a call or across calls.
C31_OneCreatePerLabel ==
    /\ \A s, t \in CreateSites :
         reg.calls[s[1]].creates[s[2]] = reg.calls[t[1]].creates[t[2]] =>
           s = t
    /\ \A s \in CreateSites :
         reg.calls[s[1]].creates[s[2]] \notin InitialLabels
    /\ \A s, t \in PostSites :
         reg.calls[s[1]].posts[s[2]].name = reg.calls[t[1]].posts[t[2]].name =>
           s = t
    /\ \A s \in PostSites :
         reg.calls[s[1]].posts[s[2]].name \notin InitialLabels

\* a live call created a label for an argument of two names that translate
\* to that one label, and a later call for another argument that translates
\* to it created nothing
C31_Witness ==
    /\ ~dry_run
    /\ Len(reg.calls) = 2
    /\ LabelCalls = {1, 2}
    /\ Collides(reg.calls[1].arg)
    /\ Len(reg.calls[1].posts) = 1
    /\ reg.calls[2].arg # reg.calls[1].arg
    /\ reg.calls[2].ret = reg.calls[1].ret
    /\ reg.calls[2].posts = <<>>

(***************************************************************************)
(* Properties of fill_gaps on arbitrary inputs (GapSpec).                  *)
(***************************************************************************)
IsReal(item) == ~item.dummy

\* number of input issues among the first k emitted items
RealsUpTo(k) == Cardinality({j \in 1..k : IsReal(emitted[j])})

\* id of the input issue emitted last before position k, offset if none
PrevRealId(k) ==
    IF RealsUpTo(k) = 0 THEN skip ELSE issues[RealsUpTo(k)].id

\* C32: for any input, sorted or not, fill_gaps emits the input issues in
\* input order, each once, none dropped; and every DummyIssue it emits has
\* an id strictly between the id of the input issue emitted before it
\* (offset before the first) and the id of the input issue that comes next.
C32_InputsKeptDummiesBetween ==
    /\ SelectSeq(emitted, IsReal) = SubSeq(issues, 1, RealsUpTo(Len(emitted)))
    /\ RealsUpTo(Len(emitted)) <= Len(issues)
    /\ GenExhausted(issues, gen) => SelectSeq(emitted, IsReal) = issues
    /\ \A k \in 1..Len(emitted) :
         emitted[k].dummy =>
           /\ RealsUpTo(k) < Len(issues)
           /\ emitted[k] = DummyIssue(emitted[k].id)
           /\ PrevRealId(k) < emitted[k].id
           /\ emitted[k].id < issues[RealsUpTo(k) + 1].id

\* the generator has run to its end on an input whose second id is not
\* greater than its first, after emitting a DummyIssue
C32_Witness ==
    /\ GenExhausted(issues, gen)
    /\ Len(issues) = 2
    /\ issues[2].id <= issues[1].id
    /\ \E k \in 1..Len(emitted) : emitted[k].dummy
    /\ Len(emitted) > 2

(***************************************************************************)
(* Properties of format_change_body across configurations (ChgSpec).       *)
(***************************************************************************)
\* C33: for an event that changes `state`, the status set ("reopened",
\* "closed" or neither) that format_change_body computes under the
\* configuration of the run is the one it computes for the same event
\* under every other rename table and states_as_labels set: it depends on
\* the raw old and new state alone.
C33_StatusIndependentOfConfig ==
    \A k \in DOMAIN chg.calls :
      "state" \in DOMAIN chg.changes =>
        \A config \in ChgConfigs :
          chg.calls[k].sets.status_changes =
            Classify(chg.changes, config).status_changes

(***************************************************************************)
(* Properties of convert_issue (IssSpec).                                  *)
(***************************************************************************)
ClosedLikeStates == {"resolved", "duplicate", "wontfix", "closed"}

\* C34: convert_issue emits a real issue with closed = True exactly when
\* its state is resolved, duplicate, wontfix or closed (not when it is
\* open, new or on hold), and gives it a closed_at value only then.
C34_ClosedIffClosedLike ==
    \A k \in DOMAIN reg.calls :
      LET rec == reg.calls[k]
      IN rec.op = "convert_issue" =>
           /\ rec.ret.closed <=> rec.arg.state \in ClosedLikeStates
           /\ rec.ret.closed_at # NoDate =>
                rec.arg.state \in ClosedLikeStates

====
